---- MODULE Spec2Model ----
(***************************************************************************)
(* A model of packages/form-core/src/FormApi.ts: the FormState record, the *)
(* derivation hook onUpdate, and the operations of FormApi (update, reset, *)
(* validateAllFields, validateForm, handleSubmit, setFieldMeta,            *)
(* setFieldValue).  Every await of the source is a point where the         *)
(* handler stops and a later action resumes it, so the actions below are   *)
(* the synchronous segments between awaits.                                *)
(*                                                                         *)
(* JavaScript values are strings here: "undefined" and "null" stand for    *)
(* the absent values, "" for the empty string.  The validator is an async  *)
(* function (FormOptions.validate returns a Promise): it settles in a      *)
(* later step than the call that invoked it, and what it will settle with  *)
(* is drawn when it is invoked.                                            *)
(***************************************************************************)
EXTENDS Integers, Sequences, FiniteSets, TLC

\* The number of calls the host makes on the public surface in a behaviour.
MaxCalls == 3
\* The number of handleSubmit attempts among those calls.
MaxSubmits == 2

\* The field paths of the form data, and those whose controller has a validator.
Fields == {"a", "b"}
ValidatedFields == {"a"}

VARIABLES
  state,           \* FormApi.state / store.state: the FormState snapshot
  options,         \* FormApi.options
  fieldInfo,       \* FormApi.fieldInfo: the paths with a live field instance
  validationMeta,  \* FormApi.validationMeta: the promise handle and its resolve/reject
  promises,        \* the promises created at line 213, by number
  runs,            \* the doValidation runs, one per validateForm call that reached line 245
  fieldRuns,       \* the field validations started by validateAllFields
  submits,         \* the handleSubmit attempts and where each one stands
  validateCalls,   \* how many times options.validate has been invoked (line 221)
  published,       \* the snapshots the store's subscribers were shown by the latest
                   \* step that published, in order
  nCalls           \* the calls made so far on the public surface

vars == <<state, options, fieldInfo, validationMeta, promises, runs, fieldRuns,
          submits, validateCalls, published, nCalls>>

----------------------------------------------------------------------------
\* JavaScript truthiness of the string-or-absent values of the model.
Truthy(v) == v \notin {"undefined", "null", "", "false"}

\* { ...base, ...partial } for records.
Spread(base, partial) ==
  [k \in DOMAIN base |-> IF k \in DOMAIN partial THEN partial[k] ELSE base[k]]

\* TData values: the root is an object or undefined; at[f] is the value at path f.
UndefinedValues == [root |-> "undefined", at |-> [f \in Fields |-> "undefined"]]
EmptyObject == [root |-> "object", at |-> [f \in Fields |-> "undefined"]]

\* options.defaultValues by identity: 0 is undefined, 1 is the object {a: "x"}.
DefaultValuesIds == {0, 1}
DefaultValuesOf(id) ==
  IF id = 0 THEN UndefinedValues
  ELSE [root |-> "object", at |-> [f \in Fields |-> IF f = "a" THEN "x" ELSE "undefined"]]

\* options.defaultState by identity: 0 is undefined, the others partial FormStates.
DefaultStateIds == {0, 1, 2}
DefaultStateOf(id) ==
  IF id = 1 THEN [formError |-> "bad"]
  ELSE IF id = 2 THEN [isFormValidating |-> TRUE]
  ELSE <<>>

\* A FieldMeta entry of state.fieldMeta; present = FALSE is a missing key.
NoMeta == [present |-> FALSE, isTouched |-> FALSE, isValidating |-> FALSE, error |-> "undefined"]

\* functionalUpdate(updater, prev) for the updaters (prev) => ({ ...prev, ...partial }).
functionalUpdate(partial, prev) == [Spread(prev, partial) EXCEPT !.present = TRUE]

\* utils.setBy(values, field, updater) with a constant updater.
setBy(values, field, v) == [root |-> "object", at |-> [values.at EXCEPT ![field] = v]]

getDefaultFormState(defaultState) ==
  Spread([values |-> EmptyObject,
          fieldMeta |-> [f \in Fields |-> NoMeta],
          canSubmit |-> TRUE,
          isFieldsValid |-> FALSE,
          isFieldsValidating |-> FALSE,
          isFormValid |-> FALSE,
          isFormValidating |-> FALSE,
          isSubmitted |-> FALSE,
          isSubmitting |-> FALSE,
          isTouched |-> FALSE,
          isValid |-> FALSE,
          isValidating |-> FALSE,
          submissionAttempts |-> 0,
          formValidationCount |-> 0,
          formError |-> "undefined",
          \* the key `error` written at line 227; no FormState key, absent at first
          error |-> "undefined",
          \* the keys of a TData object spread into the state by reset (line 166)
          spread |-> UndefinedValues],
         defaultState)

\* The store's onUpdate hook: it runs on every setState and writes back the
\* state with the derived flags.  isValidating is computed but not written back.
onUpdate(next) ==
  LET isFieldsValidating == \E f \in Fields : next.fieldMeta[f].isValidating
      isFieldsValid == ~ \E f \in Fields : Truthy(next.fieldMeta[f].error)
      isTouched == \E f \in Fields : next.fieldMeta[f].isTouched
      isValidating == isFieldsValidating \/ next.isFormValidating
      isFormValid == ~ Truthy(next.formError)
      isValid == isFieldsValid /\ isFormValid
      canSubmit == \/ (next.submissionAttempts = 0 /\ ~ isTouched)
                   \/ (~ isValidating /\ ~ next.isSubmitting /\ isValid)
  IN [next EXCEPT !.isFieldsValidating = isFieldsValidating,
                  !.isFieldsValid = isFieldsValid,
                  !.isFormValid = isFormValid,
                  !.isValid = isValid,
                  !.canSubmit = canSubmit,
                  !.isTouched = isTouched]

\* FormApi.update(next options) on state s with this.options = old.
update(s, old, new) ==
  LET s1 == IF new.defaultState # 0 /\ new.defaultState # old.defaultState
            THEN onUpdate(Spread(s, DefaultStateOf(new.defaultState)))
            ELSE s
  IN IF new.defaultValues # old.defaultValues
     THEN onUpdate([s1 EXCEPT !.values = DefaultValuesOf(new.defaultValues)])
     ELSE s1

\* The class field initialiser `options = {}`.
NoOptions == [validate |-> FALSE, defaultValues |-> 0, defaultState |-> 0]

OptionsSet == [validate : BOOLEAN, defaultValues : DefaultValuesIds, defaultState : DefaultStateIds]

\* new FormApi(opts): the store's initial state, then this.update(opts).
constructor(opts) ==
  LET ds == DefaultStateOf(opts.defaultState)
      initial == [getDefaultFormState(ds) EXCEPT
                    !.values = IF opts.defaultValues # 0
                               THEN DefaultValuesOf(opts.defaultValues)
                               ELSE IF "values" \in DOMAIN ds THEN ds.values
                               ELSE UndefinedValues,
                    !.isFormValid = ~ opts.validate]
  IN update(initial, NoOptions, opts)

\* FormApi.reset: the default state built from options.defaultValues.
reset(opts) ==
  onUpdate(IF opts.defaultValues = 0
           THEN getDefaultFormState(<<>>)
           ELSE [getDefaultFormState(<<>>) EXCEPT !.spread = DefaultValuesOf(opts.defaultValues)])

\* FormApi.setFieldMeta(field, (prev) => ({ ...prev, ...partial })) on state s.
setFieldMeta(s, field, partial) ==
  onUpdate([s EXCEPT !.fieldMeta[field] = functionalUpdate(partial, s.fieldMeta[field])])

\* A mutant of setFieldValue: opts.touch is not looked at.
setFieldValueAlwaysTouches(s, field, v, touch) ==
  setFieldMeta(onUpdate([s EXCEPT !.values = setBy(s.values, field, v)]),
               field, [isTouched |-> TRUE])

\* FormApi.setFieldValue(field, () => v, {touch}) on state s.
setFieldValue(s, field, v, touch) ==
  LET s1 == onUpdate([s EXCEPT !.values = setBy(s.values, field, v)])
  IN IF touch THEN setFieldMeta(s1, field, [isTouched |-> TRUE]) ELSE s1

\* handleSubmit's done().
done(s) == onUpdate([s EXCEPT !.isSubmitting = FALSE])

\* store.batch(fn): the subscribers are notified once, of the state the last
\* setState of fn left; `snapshots` are the states after each setState of fn.
batch(snapshots) ==
  IF snapshots = <<>> THEN <<>> ELSE <<snapshots[Len(snapshots)]>>

\* What a step that published `snapshots` leaves in `published`.
publish(snapshots) == IF snapshots = <<>> THEN published ELSE snapshots

----------------------------------------------------------------------------
Init ==
  /\ \E opts \in OptionsSet :
       /\ options = opts
       /\ state = constructor(opts)
  /\ fieldInfo \in {{}, Fields}
  /\ validationMeta = [validationPromise |-> 0, validationResolve |-> 0, validationReject |-> 0]
  /\ promises = <<>>
  /\ runs = <<>>
  /\ fieldRuns = {}
  /\ submits = <<>>
  /\ validateCalls = 0
  /\ published = <<>>
  /\ nCalls = 0

\* A host call on the public surface.
Call == nCalls < MaxCalls /\ nCalls' = nCalls + 1

Update(dv, ds) ==
  /\ Call
  /\ LET new == [options EXCEPT !.defaultValues = dv, !.defaultState = ds]
     IN /\ state' = update(state, options, new)
        /\ options' = new
        /\ published' = publish(batch(
              IF (new.defaultState # 0 /\ new.defaultState # options.defaultState)
                 \/ new.defaultValues # options.defaultValues
              THEN <<state'>> ELSE <<>>))
  /\ UNCHANGED <<fieldInfo, validationMeta, promises, runs, fieldRuns, submits, validateCalls>>

Reset ==
  /\ Call
  /\ state' = reset(options)
  /\ published' = <<state'>>
  /\ UNCHANGED <<options, fieldInfo, validationMeta, promises, runs, fieldRuns,
                 submits, validateCalls>>

\* The updaters a field controller passes to setFieldMeta.
MetaUpdaters ==
  { [isValidating |-> TRUE], [isValidating |-> FALSE, error |-> "err"],
    [isValidating |-> FALSE, error |-> ""] }

SetFieldMeta(f, partial) ==
  /\ Call
  /\ state' = setFieldMeta(state, f, partial)
  /\ published' = <<state'>>
  /\ UNCHANGED <<options, fieldInfo, validationMeta, promises, runs, fieldRuns,
                 submits, validateCalls>>

SetFieldValue(f, touch) ==
  /\ Call
  /\ state' = setFieldValue(state, f, "y", touch)
  /\ published' = batch(<<state'>>)
  /\ UNCHANGED <<options, fieldInfo, validationMeta, promises, runs, fieldRuns,
                 submits, validateCalls>>

----------------------------------------------------------------------------
\* What a validator invocation settles with: a falsy value, a message, or a
\* rejection.
ValidatorResults == {"undefined", "bad", "throw"}

\* Lines 201-205.
validateFormSetState(s) ==
  onUpdate([s EXCEPT !.isValidating = TRUE, !.formValidationCount = @ + 1])

\* Lines 209-210, for run r.
checkLatest(r) == runs[r].token = state.formValidationCount

\* Lines 192-247 past the `if (!validate) return`: the synchronous part of a
\* validateForm call made by `caller` (0: the host, s: handleSubmit attempt s),
\* whose validator invocation will settle with `result`.
validateForm(caller, result) ==
  LET fresh == validationMeta.validationPromise = 0
      p == IF fresh THEN Len(promises) + 1 ELSE validationMeta.validationPromise
  IN /\ state' = validateFormSetState(state)
     /\ published' = <<state'>>
     /\ promises' = IF fresh
                    THEN Append(promises, [status |-> "pending", value |-> "undefined"])
                    ELSE promises
     /\ validationMeta' = IF fresh
                          THEN [validationPromise |-> p, validationResolve |-> p,
                                validationReject |-> p]
                          ELSE validationMeta
     /\ validateCalls' = validateCalls + 1
     /\ runs' = Append(runs, [token |-> state'.formValidationCount, result |-> result,
                              promise |-> p, settled |-> FALSE, caller |-> caller])

\* The host calls validateForm().
ValidateForm(result) ==
  /\ Call
  /\ IF options.validate
     THEN validateForm(0, result)
     ELSE UNCHANGED <<state, published, promises, validationMeta, validateCalls, runs>>
  /\ UNCHANGED <<options, fieldInfo, fieldRuns, submits>>

\* The value written under the key `error` at lines 227-231.
errorOf(result) ==
  IF Truthy(result) THEN (IF result = "true" THEN "Invalid Form Values" ELSE result) ELSE "null"

\* A promise after its resolve or reject function is called: a settled one stays.
settle(ps, p, status, value) ==
  IF p # 0 /\ ps[p].status = "pending"
  THEN [ps EXCEPT ![p] = [status |-> status, value |-> value]]
  ELSE ps

\* Lines 219-243 from the await on: the validator of run r settles.
doValidation(r) ==
  /\ r \in 1..Len(runs)
  /\ ~ runs[r].settled
  /\ runs' = [runs EXCEPT ![r].settled = TRUE]
  /\ IF runs[r].result # "throw"
     THEN IF checkLatest(r)
          THEN /\ state' = onUpdate([state EXCEPT !.isValidating = FALSE,
                                                  !.error = errorOf(runs[r].result)])
               /\ published' = <<state'>>
               /\ promises' = settle(promises, validationMeta.validationResolve,
                                     "resolved", runs[r].result)
          ELSE UNCHANGED <<state, published, promises>>
     ELSE IF checkLatest(r)
          THEN /\ promises' = settle(promises, validationMeta.validationReject,
                                     "rejected", runs[r].result)
               /\ UNCHANGED <<state, published>>
          ELSE UNCHANGED <<state, published, promises>>
  /\ validationMeta' = [validationMeta EXCEPT !.validationPromise = 0]
  /\ UNCHANGED <<options, fieldInfo, fieldRuns, submits, validateCalls, nCalls>>

----------------------------------------------------------------------------
\* What a field validator settles with: no error, a message, or a rejection.
FieldResults == {"undefined", "err", "throw"}

\* The instances validateAllFields touches on state s (line 176), and those of
\* them it validates (line 180).
untouched(s) == {f \in fieldInfo : ~ s.fieldMeta[f].isTouched}
toValidate(s) == untouched(s) \cap ValidatedFields

\* Lines 171-187: every untouched instance is marked touched, and
\* instance.validate() marks the field as validating.
validateAllFields(s) ==
  IF untouched(s) = {} THEN s
  ELSE onUpdate([s EXCEPT !.fieldMeta =
         [f \in Fields |->
            IF f \in untouched(s)
            THEN functionalUpdate(IF f \in ValidatedFields
                                  THEN [isTouched |-> TRUE, isValidating |-> TRUE]
                                  ELSE [isTouched |-> TRUE],
                                  s.fieldMeta[f])
            ELSE s.fieldMeta[f]]])

\* FieldApi.validate() from its await on: the validator of a field settles.
fieldValidate(fr) ==
  /\ fr \in fieldRuns
  /\ ~ fr.settled
  /\ fieldRuns' = (fieldRuns \ {fr}) \cup {[fr EXCEPT !.settled = TRUE]}
  /\ state' = IF fr.result = "throw" THEN state
              ELSE setFieldMeta(state, fr.field, [isValidating |-> FALSE, error |-> fr.result])
  /\ published' = IF fr.result = "throw" THEN published ELSE <<state'>>
  /\ UNCHANGED <<options, fieldInfo, validationMeta, promises, runs, submits,
                 validateCalls, nCalls>>

\* A mutant of attempt: the attempt is counted only when it can go on.
attemptCountsWhenSubmittable(s) ==
  onUpdate([s EXCEPT !.isSubmitted = FALSE,
                     !.submissionAttempts = IF s.canSubmit THEN @ + 1 ELSE @])

\* Lines 259-265.
attempt(s) ==
  onUpdate([s EXCEPT !.isSubmitted = FALSE, !.submissionAttempts = @ + 1])

\* A mutant of passesGuard: no guard.
passesGuardAlways(s) == TRUE

\* Line 268: the attempt goes on when the state after lines 259-265 can submit.
passesGuard(s) == s.canSubmit

\* A mutant of fieldsInvalid: the field errors are not looked at.
fieldsInvalidNever(s) == FALSE

\* Line 280: the attempt stops as invalid after the field validations.
fieldsInvalid(s) == ~ s.isFieldsValid

\* Line 289: the attempt stops as invalid after the form validation.
formInvalid(s) == ~ s.isValid

\* handleSubmit up to its first await (lines 250-277).
handleSubmit ==
  /\ Call
  /\ Len(submits) < MaxSubmits
  /\ LET s1 == attempt(state)
         s2 == onUpdate([s1 EXCEPT !.isSubmitting = TRUE])
         me == Len(submits) + 1
     IN IF ~ passesGuard(s1)
        THEN /\ state' = s1
             /\ published' = <<s1>>
             /\ submits' = Append(submits, [pc |-> "aborted", promise |-> 0])
             /\ UNCHANGED fieldRuns
        ELSE /\ state' = validateAllFields(s2)
             /\ published' = <<s1, s2>> \o batch(IF untouched(s2) = {} THEN <<>> ELSE <<state'>>)
             /\ \E res \in [toValidate(s2) -> FieldResults] :
                  fieldRuns' = fieldRuns \cup
                    {[field |-> f, submit |-> me, result |-> res[f], settled |-> FALSE] :
                       f \in toValidate(s2)}
             /\ submits' = Append(submits, [pc |-> "fields", promise |-> 0])
  /\ UNCHANGED <<options, fieldInfo, validationMeta, promises, runs, validateCalls>>

\* Lines 277-287: Promise.all of the attempt's field validations has settled.
handleSubmitAfterFields(s, result) ==
  /\ s \in 1..Len(submits)
  /\ submits[s].pc = "fields"
  /\ \A fr \in fieldRuns : fr.submit = s => fr.settled
  /\ IF \E fr \in fieldRuns : fr.submit = s /\ fr.result = "throw"
     THEN /\ submits' = [submits EXCEPT ![s].pc = "threw"]
          /\ UNCHANGED <<state, published, promises, validationMeta, validateCalls, runs>>
     ELSE IF fieldsInvalid(state)
     THEN /\ state' = done(state)
          /\ published' = <<state'>>
          /\ submits' = [submits EXCEPT ![s].pc = "invalid"]
          /\ UNCHANGED <<promises, validationMeta, validateCalls, runs>>
     ELSE IF ~ options.validate
     THEN /\ submits' = [submits EXCEPT ![s].pc = "form"]
          /\ UNCHANGED <<state, published, promises, validationMeta, validateCalls, runs>>
     ELSE /\ validateForm(s, result)
          /\ submits' = [submits EXCEPT ![s] = [pc |-> "form", promise |-> runs'[Len(runs')].promise]]
  /\ UNCHANGED <<options, fieldInfo, fieldRuns, nCalls>>

\* Lines 287-297: the promise returned by validateForm has settled.
handleSubmitAfterForm(s) ==
  /\ s \in 1..Len(submits)
  /\ submits[s].pc = "form"
  /\ LET p == submits[s].promise
     IN /\ p # 0 => promises[p].status # "pending"
        /\ IF p # 0 /\ promises[p].status = "rejected"
           THEN /\ submits' = [submits EXCEPT ![s].pc = "threw"]
                /\ UNCHANGED <<state, published>>
           ELSE IF formInvalid(state)
           THEN /\ state' = done(state)
                /\ published' = <<state'>>
                /\ submits' = [submits EXCEPT ![s].pc = "invalid"]
           ELSE /\ submits' = [submits EXCEPT ![s].pc = "onSubmit"]
                /\ UNCHANGED <<state, published>>
  /\ UNCHANGED <<options, fieldInfo, validationMeta, promises, runs, fieldRuns,
                 validateCalls, nCalls>>

\* A mutant of onSubmitReturned: done() first, and no batch.
onSubmitReturnedUnbatched(s) ==
  <<done(s), onUpdate([done(s) EXCEPT !.isSubmitted = TRUE])>>

\* Lines 299-302: what the subscribers are shown when onSubmit has returned;
\* the last snapshot is the state it leaves.
onSubmitReturned(s) ==
  LET s1 == onUpdate([s EXCEPT !.isSubmitted = TRUE])
  IN batch(<<s1, done(s1)>>)

\* Lines 297-306: options.onSubmit has returned or thrown.
handleSubmitAfterOnSubmit(s, returned) ==
  /\ s \in 1..Len(submits)
  /\ submits[s].pc = "onSubmit"
  /\ IF returned
     THEN /\ published' = onSubmitReturned(state)
          /\ state' = published'[Len(published')]
          /\ submits' = [submits EXCEPT ![s].pc = "submitted"]
     ELSE /\ state' = done(state)
          /\ published' = <<state'>>
          /\ submits' = [submits EXCEPT ![s].pc = "failed"]
  /\ UNCHANGED <<options, fieldInfo, validationMeta, promises, runs, fieldRuns,
                 validateCalls, nCalls>>

----------------------------------------------------------------------------
Next ==
  \/ \E dv \in DefaultValuesIds, ds \in DefaultStateIds : Update(dv, ds)
  \/ Reset
  \/ \E f \in ValidatedFields, partial \in MetaUpdaters : SetFieldMeta(f, partial)
  \/ \E f \in Fields, touch \in BOOLEAN : SetFieldValue(f, touch)
  \/ \E result \in ValidatorResults : ValidateForm(result)
  \/ \E r \in 1..Len(runs) : doValidation(r)
  \/ \E fr \in fieldRuns : fieldValidate(fr)
  \/ handleSubmit
  \/ \E s \in 1..Len(submits), result \in ValidatorResults : handleSubmitAfterFields(s, result)
  \/ \E s \in 1..Len(submits) : handleSubmitAfterForm(s)
  \/ \E s \in 1..Len(submits), returned \in BOOLEAN : handleSubmitAfterOnSubmit(s, returned)

Spec == Init /\ [][Next]_vars

----------------------------------------------------------------------------
\* The raw fields the derived flags are computed from.
someFieldValidating == \E f \in Fields : state.fieldMeta[f].isValidating
someFieldError == \E f \in Fields : Truthy(state.fieldMeta[f].error)
someFieldTouched == \E f \in Fields : state.fieldMeta[f].isTouched

\* The validator of run r settles in this step.
settles(r) == r \in 1..Len(runs) /\ ~ runs[r].settled /\ runs'[r].settled
\* A validateForm call with a validator configured happens in this step.
validateFormCalled == Len(runs') = Len(runs) + 1

\* C1: in every reachable state the stored derived flags agree with the raw
\* fields: isFieldsValidating iff some field meta is validating, isFieldsValid
\* iff no field meta has a non-empty error, isTouched iff some field meta is
\* touched, isFormValid iff formError is not set, isValid = isFieldsValid and
\* isFormValid.
C1_DerivedFlagsAgree ==
  /\ state.isFieldsValidating = someFieldValidating
  /\ state.isFieldsValid = ~ someFieldError
  /\ state.isTouched = someFieldTouched
  /\ state.isFormValid = ~ Truthy(state.formError)
  /\ state.isValid = (state.isFieldsValid /\ state.isFormValid)

\* C2: in every reachable state the stored isValidating equals
\* isFieldsValidating or isFormValidating.
C2_IsValidatingDerived ==
  state.isValidating = (state.isFieldsValidating \/ state.isFormValidating)

\* C3: in every reachable state canSubmit = (submissionAttempts = 0 and not
\* isTouched) or (not isValidating and not isSubmitting and isValid), with the
\* stored isValidating of that state.
C3_CanSubmitFromStoredFlags ==
  state.canSubmit = (\/ (state.submissionAttempts = 0 /\ ~ state.isTouched)
                     \/ (~ state.isValidating /\ ~ state.isSubmitting /\ state.isValid))

\* C4: with a validator configured, a validateForm call is one transition that
\* increments formValidationCount by one and sets isFormValidating to true.
C4_ValidateFormSetsIsFormValidating ==
  [][validateFormCalled =>
       /\ state'.formValidationCount = state.formValidationCount + 1
       /\ state'.isFormValidating]_vars

\* C5: a handleSubmit whose form-level validator returned a non-empty string
\* never invokes onSubmit: once its validateForm promise has settled, the
\* attempt is not at, or past, the onSubmit call (the message is in formError
\* and isValid is false).
C5_FormErrorBlocksSubmit ==
  \A s \in 1..Len(submits) : \A r \in 1..Len(runs) :
    (runs[r].caller = s /\ Truthy(runs[r].result) /\ runs[r].result # "throw"
       /\ submits[s].pc # "form")
    => submits[s].pc \notin {"onSubmit", "submitted", "failed"}

\* C6: a validateForm call made while the validator of an earlier call has not
\* settled does not invoke the validator again.
C6_InFlightCallInvokesNoValidator ==
  [][(validateFormCalled /\ \E r \in 1..Len(runs) : ~ runs[r].settled)
       => validateCalls' = validateCalls]_vars

\* C7: for any validateForm calls and any interleaving of them with the
\* completions of their validators, once every validator invocation has settled
\* the promise returned to every caller has settled.  (formValidationCount =
\* Len(runs): the counter has counted every call, none was undone by reset.)
C7_EveryCallerSettles ==
  (/\ state.formValidationCount = Len(runs)
   /\ \A r \in 1..Len(runs) : runs[r].settled)
  => \A r \in 1..Len(runs) : promises[runs[r].promise].status # "pending"

\* C8: when a later validateForm call has started before the validator of an
\* earlier run settles, the earlier run's completion writes no state.
C8_SupersededRunWritesNothing ==
  [][\A r \in 1..Len(runs) : (settles(r) /\ r < Len(runs)) => state' = state]_vars

\* C9: formValidationCount never decreases, whatever operation is performed.
C9_CountMonotonic ==
  [][state'.formValidationCount >= state.formValidationCount]_vars

\* C10: when the validator of the latest run rejects, the promise the callers
\* of that run await is rejected with that error, formError is unchanged and
\* the promise handle is cleared.
C10_LatestRejectionReachesCallers ==
  [][\A r \in 1..Len(runs) :
       (settles(r) /\ r = Len(runs) /\ runs[r].result = "throw")
       => /\ promises'[runs[r].promise] = [status |-> "rejected", value |-> "throw"]
          /\ state'.formError = state.formError
          /\ validationMeta'.validationPromise = 0]_vars

\* A handleSubmit call happens in this step; the attempt it starts.
handleSubmitCalled == Len(submits') = Len(submits) + 1
newAttempt == Len(submits) + 1

\* The raw fields of the state that step 1 of handleSubmit leaves alone.
sameBesidesAttempt(s1, s0) ==
  /\ s1.values = s0.values
  /\ s1.fieldMeta = s0.fieldMeta
  /\ s1.isSubmitting = s0.isSubmitting
  /\ s1.formError = s0.formError
  /\ s1.formValidationCount = s0.formValidationCount
  /\ s1.isFormValidating = s0.isFormValidating
  /\ s1.isValidating = s0.isValidating

\* C11: every handleSubmit call, whatever its outcome, first publishes one
\* transition that sets isSubmitted to false and adds exactly one to
\* submissionAttempts (and changes nothing else), and the count it leaves at
\* the end of the step is that one; no step but handleSubmit and reset changes
\* submissionAttempts, so n calls without a reset add n.
C11_EveryAttemptCounted ==
  [][/\ handleSubmitCalled =>
          /\ published'[1].isSubmitted = FALSE
          /\ published'[1].submissionAttempts = state.submissionAttempts + 1
          /\ sameBesidesAttempt(published'[1], state)
          /\ state'.submissionAttempts = state.submissionAttempts + 1
          /\ state'.isSubmitted = FALSE
     /\ (~ handleSubmitCalled /\ ~ Reset) =>
          state'.submissionAttempts = state.submissionAttempts]_vars

\* C11 witness: two attempts, the first one aborted by the guard, both counted.
C11_Witness ==
  /\ Len(submits) = 2
  /\ submits[1].pc = "aborted"
  /\ state.submissionAttempts = 2

\* C12: when canSubmit is false right after step 1 of handleSubmit, the attempt
\* returns and changes nothing else: step 1 is the only publication and the
\* state it left is the final one, isSubmitting, values, fieldMeta, formError
\* and formValidationCount are as before the call, no field or form validator
\* is invoked, and the attempt ends there, never reaching onSubmit or
\* onInvalidSubmit.
C12_GuardAbortChangesNothing ==
  [][/\ (handleSubmitCalled /\ ~ published'[1].canSubmit) =>
          /\ published' = <<state'>>
          /\ sameBesidesAttempt(state', state)
          /\ UNCHANGED <<fieldRuns, runs, validateCalls, promises, validationMeta>>
          /\ submits'[newAttempt].pc = "aborted"
     /\ \A s \in 1..Len(submits) :
          submits[s].pc = "aborted" => submits'[s].pc = "aborted"]_vars

\* C12 witness: an attempt was aborted by the guard on a form that had been
\* attempted or touched and cannot submit.
C12_Witness ==
  \E s \in 1..Len(submits) :
    /\ submits[s].pc = "aborted"
    /\ ~ state.canSubmit
    /\ ~ state.isSubmitting

\* Where attempt s stands before and after this step ("none": not yet called).
pcOf(s) == IF s \in 1..Len(submits) THEN submits[s].pc ELSE "none"
pcOfNext(s) == submits'[s].pc

\* C13: the steps of one attempt are ordered.  The attempt starts waiting for
\* its field validations with isSubmitting set; it reaches the form-level
\* validation only from there, with all its field validations settled and
\* isFieldsValid true, and invokes the form-level validator then (if one is
\* configured) and not when the fields are invalid; it reaches onSubmit only
\* from the form-level validation, with the promise of validateForm resolved
\* and isValid true, and not when isValid is false.
C13_StepsInOrder ==
  [][\A s \in 1..Len(submits') :
       /\ (pcOfNext(s) = "fields" /\ pcOf(s) # "fields") =>
            /\ pcOf(s) = "none"
            /\ published'[2].isSubmitting
            /\ state'.isSubmitting
       /\ (pcOfNext(s) = "form" /\ pcOf(s) # "form") =>
            /\ pcOf(s) = "fields"
            /\ \A fr \in fieldRuns : fr.submit = s => fr.settled
            /\ state.isFieldsValid
            /\ IF options.validate
               THEN validateCalls' = validateCalls + 1 /\ submits'[s].promise # 0
               ELSE validateCalls' = validateCalls /\ submits'[s].promise = 0
       /\ (pcOf(s) = "fields" /\ pcOfNext(s) # "fields" /\ ~ state.isFieldsValid) =>
            /\ validateCalls' = validateCalls
            /\ pcOfNext(s) \in {"invalid", "threw"}
       /\ (pcOfNext(s) = "onSubmit" /\ pcOf(s) # "onSubmit") =>
            /\ pcOf(s) = "form"
            /\ submits[s].promise # 0 => promises[submits[s].promise].status = "resolved"
            /\ state.isValid
       /\ (pcOf(s) = "form" /\ pcOfNext(s) # "form" /\ ~ state.isValid) =>
            pcOfNext(s) \in {"invalid", "threw"}]_vars

\* C13 witness: an attempt is at onSubmit after a field validation of its own
\* and a form-level validation.
C13_Witness ==
  \E s \in 1..Len(submits) :
    /\ submits[s].pc = "onSubmit"
    /\ submits[s].promise # 0
    /\ \E fr \in fieldRuns : fr.submit = s

\* C14: a submit attempt that finds the form invalid, after its field
\* validations or after the form-level validation, ends normally through
\* onInvalidSubmit with isSubmitting false and isSubmitted false.
C14_InvalidSubmitEndsUnsubmitted ==
  [][\A s \in 1..Len(submits) :
       (pcOf(s) \in {"fields", "form"} /\ pcOfNext(s) = "invalid") =>
         /\ ~ state'.isSubmitting
         /\ ~ state'.isSubmitted]_vars

\* C15: when onSubmit returns, the subscribers are notified once, of a state
\* with isSubmitted true and isSubmitting false, which is the state the step
\* leaves; no snapshot they are shown by that step has isSubmitting false and
\* isSubmitted false.
C15_SubmittedInOnePublication ==
  [][\A s \in 1..Len(submits) :
       (pcOf(s) = "onSubmit" /\ pcOfNext(s) = "submitted") =>
         /\ published' = <<state'>>
         /\ state'.isSubmitted
         /\ ~ state'.isSubmitting
         /\ \A i \in 1..Len(published') :
              ~ (~ published'[i].isSubmitting /\ ~ published'[i].isSubmitted)]_vars

\* C15 witness: an attempt has been submitted and its publication is the
\* latest one.
C15_Witness ==
  \E s \in 1..Len(submits) :
    /\ submits[s].pc = "submitted"
    /\ published = <<state>>
    /\ state.isSubmitted
    /\ ~ state.isSubmitting

\* C16: when onSubmit throws or rejects, the step that ends the attempt leaves
\* isSubmitting false and isSubmitted false, and a handleSubmit on the state it
\* leaves, when that state is valid and nothing is validating, passes the guard.
C16_FailedSubmitEndsUnsubmitted ==
  [][\A s \in 1..Len(submits) :
       (pcOf(s) = "onSubmit" /\ pcOfNext(s) = "failed") =>
         /\ ~ state'.isSubmitting
         /\ ~ state'.isSubmitted
         /\ (state'.isValid /\ ~ state'.isFieldsValidating /\ ~ state'.isFormValidating)
              => passesGuard(attempt(state'))]_vars

\* C17: reset() leaves values equal to options.defaultValues, submissionAttempts
\* 0, and isSubmitting, isSubmitted, isTouched, isFormValidating and
\* isFieldsValidating false.
C17_ResetRestoresDefaults ==
  [][Reset =>
       /\ state'.values = DefaultValuesOf(options.defaultValues)
       /\ state'.submissionAttempts = 0
       /\ ~ state'.isSubmitting
       /\ ~ state'.isSubmitted
       /\ ~ state'.isTouched
       /\ ~ state'.isFormValidating
       /\ ~ state'.isFieldsValidating]_vars

\* C18: a setFieldValue with touch:false on an untouched form leaves isTouched
\* false; a setFieldValue with the default touch leaves isTouched true; and
\* once isTouched is true, every step other than reset() leaves it true.
C18_TouchedUntilReset ==
  [][/\ \A f \in Fields :
          (SetFieldValue(f, FALSE) /\ ~ state.isTouched) => ~ state'.isTouched
     /\ \A f \in Fields : SetFieldValue(f, TRUE) => state'.isTouched
     /\ (state.isTouched /\ ~ Reset) => state'.isTouched]_vars

\* C18 witness: no field instance is mounted, so only setFieldValue can have
\* touched the field; the form is touched and a submit attempt has run since.
C18_Witness ==
  /\ fieldInfo = {}
  /\ state.isTouched
  /\ state.values.at["a"] = "y"
  /\ \E s \in 1..Len(submits) : submits[s].pc # "aborted"

\* C19: a submit attempt that has passed the guard ends, in every outcome, in
\* a step that leaves isSubmitting false.
C19_AttemptEndsNotSubmitting ==
  [][\A s \in 1..Len(submits) :
       (pcOf(s) \in {"fields", "form", "onSubmit"}
        /\ pcOfNext(s) \in {"invalid", "submitted", "failed", "threw"}) =>
         ~ state'.isSubmitting]_vars

\* The submit attempts between setting isSubmitting and terminating.
pastGuard == {s \in 1..Len(submits) : submits[s].pc \in {"fields", "form", "onSubmit"}}

\* C20: at most one submit attempt is past the guard at any time.
C20_OneAttemptPastGuard == Cardinality(pastGuard) <= 1

====
